---- MODULE Spec2Model ----
(***************************************************************************)
(* mcp-youtube-transcriber: the get_transcript orchestrator (server.py),   *)
(* the request throttler (throttle.py), the fetch policy (policy.py) and   *)
(* the transcript cache (cache.py) as one state machine.                   *)
(*                                                                         *)
(* Coroutines run on one asyncio event loop: a coroutine runs without      *)
(* interruption from one await that suspends to the next, and an action    *)
(* is one such run.  Acquiring a free asyncio.Lock does not suspend; a     *)
(* sleep, a held lock, a pending future and asyncio.to_thread do.  The two *)
(* asyncio.to_thread calls (get_cache_entry, _fetch_transcript_once) run   *)
(* in worker threads, so the thread's work and the coroutine's resumption  *)
(* are separate steps.                                                     *)
(*                                                                         *)
(* Time is the monotonic clock in ticks of 1/TicksPerSecond seconds.  The  *)
(* origin of the clock is the current instant: now is 0, an instant in the *)
(* past is negative, and when the clock moves on by d every stored instant *)
(* moves back by d.  The code only compares stored instants with now, so   *)
(* an instant further back than any comparison can tell is stored as the   *)
(* furthest one that matters (see Elapse).                                 *)
(***************************************************************************)
EXTENDS Integers, Sequences, FiniteSets, TLC

\* ---------------------------------------------------------------- bounds
MaxCalls == 2
TicksPerSecond == 2

Calls == 1..MaxCalls
NoCall == 0

\* inflight_key = f"{video_id}:{lang}:{kind}" (server.py:170)
Keys == {"vidA:en:text", "vidB:en:text"}

Methods == {"YT_DATA_API", "YT_TRANSCRIPT_API", "SCRAPE"}

Min(a, b) == IF a < b THEN a ELSE b

Max(a, b) == IF a > b THEN a ELSE b

\* time.monotonic(), read at the current instant
now == 0

RECURSIVE Pow2(_)
Pow2(n) == IF n = 0 THEN 1 ELSE 2 * Pow2(n - 1)

\* ---------------------------------------------------------------- policy.py
\* Durations other than ttl_seconds are in ticks (seconds * TicksPerSecond);
\* the 0.5 s jitter of the API profile is TicksPerSecond \div 2.

\* mutant: the branch for YT_TRANSCRIPT_API is missing
policy_for_NoLibraryProfile(method) ==
    IF method = "YT_DATA_API" THEN
        [fetch_method |-> method, auth_required |-> TRUE,
         ttl_seconds |-> 14 * 24 * 60 * 60,
         min_interval_seconds |-> 1 * TicksPerSecond,
         jitter_seconds |-> TicksPerSecond \div 2,
         max_retries |-> 2,
         backoff_base_seconds |-> 2 * TicksPerSecond,
         backoff_max_seconds |-> 30 * TicksPerSecond,
         cooldown_seconds |-> 5 * 60 * TicksPerSecond,
         safe_max_per_hour |-> 50]
    ELSE
        [fetch_method |-> method, auth_required |-> FALSE,
         ttl_seconds |-> 1000000000,
         min_interval_seconds |-> 12 * TicksPerSecond,
         jitter_seconds |-> 3 * TicksPerSecond,
         max_retries |-> 1,
         backoff_base_seconds |-> 2 * TicksPerSecond,
         backoff_max_seconds |-> 20 * TicksPerSecond,
         cooldown_seconds |-> 30 * 60 * TicksPerSecond,
         safe_max_per_hour |-> 3]

\* policy.py:64-103
policy_for(method) ==
    IF method = "YT_DATA_API" THEN
        [fetch_method |-> method, auth_required |-> TRUE,
         ttl_seconds |-> 14 * 24 * 60 * 60,
         min_interval_seconds |-> 1 * TicksPerSecond,
         jitter_seconds |-> TicksPerSecond \div 2,
         max_retries |-> 2,
         backoff_base_seconds |-> 2 * TicksPerSecond,
         backoff_max_seconds |-> 30 * TicksPerSecond,
         cooldown_seconds |-> 5 * 60 * TicksPerSecond,
         safe_max_per_hour |-> 50]
    ELSE IF method = "YT_TRANSCRIPT_API" THEN
        [fetch_method |-> method, auth_required |-> FALSE,
         ttl_seconds |-> 60 * 24 * 60 * 60,
         min_interval_seconds |-> 8 * TicksPerSecond,
         jitter_seconds |-> 2 * TicksPerSecond,
         max_retries |-> 3,
         backoff_base_seconds |-> 2 * TicksPerSecond,
         backoff_max_seconds |-> 60 * TicksPerSecond,
         cooldown_seconds |-> 15 * 60 * TicksPerSecond,
         safe_max_per_hour |-> 5]
    ELSE
        [fetch_method |-> method, auth_required |-> FALSE,
         ttl_seconds |-> 1000000000,
         min_interval_seconds |-> 12 * TicksPerSecond,
         jitter_seconds |-> 3 * TicksPerSecond,
         max_retries |-> 1,
         backoff_base_seconds |-> 2 * TicksPerSecond,
         backoff_max_seconds |-> 20 * TicksPerSecond,
         cooldown_seconds |-> 30 * 60 * TicksPerSecond,
         safe_max_per_hour |-> 3]

\* ---------------------------------------------------------------- cache.py
\* A row of the transcripts table; exists = FALSE is "no row" (None).
NoEntry == [exists |-> FALSE, transcript_text |-> "", is_auto_generated |-> "null"]

CacheEntry(text, auto) ==
    [exists |-> TRUE, transcript_text |-> text, is_auto_generated |-> auto]

\* SELECT ... WHERE video_id = ? AND language = ? AND kind = ?
get_cache_entry(table, k) == table[k]

\* mutant: the table is replaced by the one row
set_cache_entry_Evicting(table, k, text, auto) ==
    [j \in DOMAIN table |-> IF j = k THEN CacheEntry(text, auto) ELSE NoEntry]

\* mutant: INSERT OR IGNORE, a row that exists is kept
set_cache_entry_KeepExisting(table, k, text, auto) ==
    IF table[k].exists THEN table ELSE [table EXCEPT ![k] = CacheEntry(text, auto)]

\* INSERT OR REPLACE INTO transcripts ...
set_cache_entry(table, k, text, auto) ==
    [table EXCEPT ![k] = CacheEntry(text, auto)]

\* ------------------------------------------------- cache.py, all the columns
\* Python values are written as their repr, column values as SQLite holds
\* them: "NULL", a JSON text, "1" or "0".
TranscriptTexts == {"", "hello world"}

SegmentsValues ==
    {"None", "[]", "[{'text': 'hi', 'start': 0.0, 'duration': 1.5}]"}

MetadataValues == {"None", "{}"}

AutoValues == {"None", "True", "False"}

\* json.dumps of the values above
json_dumps(v) ==
    CASE v = "[]" -> "[]"
      [] v = "[{'text': 'hi', 'start': 0.0, 'duration': 1.5}]"
           -> "[{\"text\": \"hi\", \"start\": 0.0, \"duration\": 1.5}]"
      [] v = "{}" -> "{}"
      [] OTHER -> "null"

\* json.loads of a JSON text
json_loads(t) ==
    CASE t = "[]" -> "[]"
      [] t = "[{\"text\": \"hi\", \"start\": 0.0, \"duration\": 1.5}]"
           -> "[{'text': 'hi', 'start': 0.0, 'duration': 1.5}]"
      [] t = "{}" -> "{}"
      [] OTHER -> "None"

\* cache.py:67-68: hashlib.sha256(text.encode("utf-8")).hexdigest(), one digest
\* for each text
compute_sha256(text) == "sha256(" \o text \o ")"

\* a column value as Python's "if value" sees it
Truthy(col) == col \notin {"NULL", ""}

NoRow ==
    [present |-> FALSE, transcript_text |-> "", segments_json |-> "NULL",
     metadata_json |-> "NULL", is_auto_generated |-> "NULL", sha256 |-> ""]

\* get_cache_entry's None
None ==
    [is_none |-> TRUE, transcript_text |-> "", segments |-> "None",
     metadata |-> "None", is_auto_generated |-> "None", sha256 |-> ""]

NeverSet ==
    [present |-> FALSE, transcript_text |-> "", segments |-> "None",
     metadata |-> "None", is_auto_generated |-> "None"]

\* mutant: a value is stored only when it is truthy ("if segments")
StoreRow_IfTruthy(text, segments, metadata, auto) ==
    [present |-> TRUE,
     transcript_text |-> text,
     segments_json |-> IF segments \notin {"None", "[]"}
                         THEN json_dumps(segments) ELSE "NULL",
     metadata_json |-> IF metadata \notin {"None", "{}"}
                         THEN json_dumps(metadata) ELSE "NULL",
     is_auto_generated |-> IF auto = "None" THEN "NULL"
                           ELSE IF auto = "True" THEN "1" ELSE "0",
     sha256 |-> compute_sha256(text)]

\* cache.py:130-154: the values set_cache_entry binds to the INSERT
StoreRow(text, segments, metadata, auto) ==
    [present |-> TRUE,
     transcript_text |-> text,
     segments_json |-> IF segments # "None" THEN json_dumps(segments) ELSE "NULL",
     metadata_json |-> IF metadata # "None" THEN json_dumps(metadata) ELSE "NULL",
     is_auto_generated |-> IF auto = "None" THEN "NULL"
                           ELSE IF auto = "True" THEN "1" ELSE "0",
     sha256 |-> compute_sha256(text)]

\* cache.py:136-155: INSERT OR REPLACE on the primary key
InsertOrReplace(tbl, k, row) == [tbl EXCEPT ![k] = row]

\* cache.py:90-99: SELECT ... WHERE video_id = ? AND language = ? AND kind = ?
SelectRow(tbl, k) == tbl[k]

\* cache.py:101-114: None for no row, else the CacheEntry of the row
LoadEntry(row) ==
    IF ~row.present THEN None
    ELSE [is_none |-> FALSE,
          transcript_text |-> row.transcript_text,
          segments |-> IF Truthy(row.segments_json)
                         THEN json_loads(row.segments_json) ELSE "None",
          metadata |-> IF Truthy(row.metadata_json)
                         THEN json_loads(row.metadata_json) ELSE "None",
          is_auto_generated |-> IF row.is_auto_generated # "NULL"
                                  THEN (IF row.is_auto_generated = "0"
                                          THEN "False" ELSE "True")
                                  ELSE "None",
          sha256 |-> row.sha256]

\* ------------------------------------------------- utils.py
\* A Python str is the sequence of its characters, each a one-character
\* string.
Str_scheme_sep ==
    <<":", "/", "/">>

Str_slash == <<"/">>

Str_question == <<"?">>

Str_amp == <<"&">>

Str_eq == <<"=">>

Str_youtube_com ==
    <<"y", "o", "u", "t", "u", "b", "e", ".", "c", "o", "m">>

Str_youtu_be ==
    <<"y", "o", "u", "t", "u", ".", "b", "e">>

Str_youtu_be_slash ==
    <<"y", "o", "u", "t", "u", ".", "b", "e", "/">>

Str_shorts ==
    <<"/", "s", "h", "o", "r", "t", "s", "/">>

Str_watch ==
    <<"w", "a", "t", "c", "h", "?">>

Str_v_eq == <<"v", "=">>

UpperCase ==
    <<"A", "B", "C", "D", "E", "F", "G", "H", "I", "J", "K", "L", "M",
      "N", "O", "P", "Q", "R", "S", "T", "U", "V", "W", "X", "Y", "Z">>

LowerCase ==
    <<"a", "b", "c", "d", "e", "f", "g", "h", "i", "j", "k", "l", "m",
      "n", "o", "p", "q", "r", "s", "t", "u", "v", "w", "x", "y", "z">>

Whitespace == {" ", "\t", "\n"}

\* str.lower()
RECURSIVE lower(_)
lower(str) ==
    IF str = <<>> THEN <<>>
    ELSE LET ch == Head(str)
             lo == IF \E i \in 1..Len(UpperCase) : UpperCase[i] = ch
                     THEN LowerCase[CHOOSE i \in 1..Len(UpperCase) : UpperCase[i] = ch]
                     ELSE ch
         IN  <<lo>> \o lower(Tail(str))

\* str.lstrip(), str.rstrip() and str.rstrip(chars)
RECURSIVE lstrip(_, _)
lstrip(str, chars) ==
    IF str # <<>> /\ Head(str) \in chars THEN lstrip(Tail(str), chars) ELSE str

RECURSIVE rstrip(_, _)
rstrip(str, chars) ==
    IF str # <<>> /\ str[Len(str)] \in chars
      THEN rstrip(SubSeq(str, 1, Len(str) - 1), chars)
      ELSE str

\* mutant: the argument is taken as it is
strip_Nothing(str) == str

\* utils.py:19: url_or_id.strip()
strip(str) == rstrip(lstrip(str, Whitespace), Whitespace)

\* str.startswith(prefix)
startswith(str, prefix) ==
    /\ Len(prefix) <= Len(str)
    /\ SubSeq(str, 1, Len(prefix)) = prefix

\* the places where sub occurs in str
Occurrences(str, sub) ==
    {i \in 1..(Len(str) - Len(sub) + 1) : SubSeq(str, i, i + Len(sub) - 1) = sub}

\* sub in str
Contains(str, sub) == Occurrences(str, sub) # {}

\* str.split(sep, 1)[0] and str.split(sep, 1)[-1]
SplitFirst(str, sep) ==
    IF ~Contains(str, sep) THEN <<str, str>>
    ELSE LET i == CHOOSE i \in Occurrences(str, sep) :
                      \A j \in Occurrences(str, sep) : i <= j
         IN  <<SubSeq(str, 1, i - 1), SubSeq(str, i + Len(sep), Len(str))>>

\* str.rsplit(sep, 1)[-1]
RSplitLast(str, sep) ==
    IF ~Contains(str, sep) THEN str
    ELSE LET i == CHOOSE i \in Occurrences(str, sep) :
                      \A j \in Occurrences(str, sep) : i >= j
         IN  SubSeq(str, i + Len(sep), Len(str))

\* utils.py:39-41: for part in query.split("&"): the value of the first part
\* that starts with "v=", or <<FALSE, <<>>>> when the loop ends
RECURSIVE FirstVPart(_)
FirstVPart(query) ==
    LET part == SplitFirst(query, Str_amp)[1]
    IN  IF startswith(part, Str_v_eq)
          THEN <<TRUE, SplitFirst(part, Str_eq)[2]>>
          ELSE IF Contains(query, Str_amp)
                 THEN FirstVPart(SplitFirst(query, Str_amp)[2])
                 ELSE <<FALSE, <<>>>>

\* utils.py:43-49: the last path segment as best guess, else the string
Fallback(str) ==
    LET candidate == RSplitLast(rstrip(str, {"/"}), Str_slash)
    IN  IF Contains(str, Str_slash) /\ Len(candidate) >= 6
          THEN candidate
          ELSE str

\* utils.py:9-49
extract_video_id(arg) ==
    LET str == strip(arg)
        low == lower(str)
    IN  IF /\ Len(str) = 11
           /\ ~Contains(str, Str_scheme_sep)
           /\ ~Contains(str, Str_slash)
          THEN str
        ELSE IF Contains(low, Str_youtube_com) \/ Contains(low, Str_youtu_be)
          THEN IF Contains(low, Str_youtu_be_slash)
                 THEN SplitFirst(RSplitLast(str, Str_slash), Str_question)[1]
               ELSE IF Contains(low, Str_shorts)
                 THEN SplitFirst(SplitFirst(str, Str_shorts)[2], Str_question)[1]
               ELSE IF /\ Contains(low, Str_watch)
                       /\ Contains(low, Str_v_eq)
                       /\ FirstVPart(SplitFirst(str, Str_question)[2])[1]
                 THEN FirstVPart(SplitFirst(str, Str_question)[2])[2]
               ELSE Fallback(str)
        ELSE Fallback(str)

\* ---------------------------------------------------------------- envelopes
NoError == "<no error key>"

\* _format_cache_meta(entry)["hit"]: True for any entry, False for None
format_cache_meta(entry) == entry.exists

\* _format_cache_meta(entry)["age_seconds"]: an int for any entry, None for None
format_cache_age(entry) == IF entry.exists THEN "int" ELSE "null"

\* mutant: the cached row is reported as fetched from the network
format_cached_response_AsFetched(k, entry) ==
    [video_id |-> k,
     is_auto_generated |-> entry.is_auto_generated,
     transcript_text |-> entry.transcript_text,
     error |-> NoError,
     hit |-> format_cache_meta(entry),
     age_seconds |-> format_cache_age(entry),
     source |-> "network"]

format_cached_response(k, entry) ==
    [video_id |-> k, is_auto_generated |-> entry.is_auto_generated,
     transcript_text |-> entry.transcript_text, error |-> NoError,
     hit |-> format_cache_meta(entry),
     age_seconds |-> format_cache_age(entry), source |-> "cache"]

format_error_response(k, err) ==
    [video_id |-> k, is_auto_generated |-> "null", transcript_text |-> "",
     error |-> err, hit |-> format_cache_meta(NoEntry),
     age_seconds |-> format_cache_age(NoEntry), source |-> "network"]

\* the result dict built at the end of _fetch_transcript_once
format_fetched_response(k, entry) ==
    [video_id |-> k, is_auto_generated |-> entry.is_auto_generated,
     transcript_text |-> entry.transcript_text, error |-> NoError,
     hit |-> format_cache_meta(entry),
     age_seconds |-> format_cache_age(entry), source |-> "network"]

\* the value of a future that is not resolved, of a call that has not returned
Pending ==
    [video_id |-> "", is_auto_generated |-> "null", transcript_text |-> "",
     error |-> NoError, hit |-> FALSE, age_seconds |-> "null",
     source |-> "pending"]

\* ---------------------------------------------------------------- upstream
\* What YouTubeTranscriptApi answers to one _fetch_transcript_once: which
\* transcripts the video has, or the exception raised.
Upstream ==
    {"both", "generated", "manual", "NoTranscriptFound", "TranscriptsDisabled",
     "429 Too Many Requests", "429 Too Many Requests retry-after: 5", "boom"}

HasTranscript == {"both", "generated", "manual"}

\* the answers to one fetch of a video whose transcript list is one of lists:
\* that list, or any of the exceptions
UpstreamOf(lists) == lists \cup (Upstream \ HasTranscript)

\* the variant picked by find_generated_transcript / find_transcript
PickAuto(pa, up) ==
    IF up = "both" THEN (IF pa THEN "true" ELSE "false")
    ELSE IF up = "generated" THEN "true" ELSE "false"

TextOf(k, auto) == IF auto = "true" THEN "auto text" ELSE "manual text"

\* ---------------------------------------------------------------- throttle.py
is_rate_limit_error(msg) ==
    msg \in {"429 Too Many Requests", "429 Too Many Requests retry-after: 5"}

\* re.search(r"retry-after[:=]\\s*(\\d+)", ...): in the raw string the doubled
\* backslashes are literal backslashes, so the group is a backslash followed by
\* d's and int() of it raises ValueError: the result is None (0 here) for
\* every message.
parse_retry_after_seconds(msg) == 0

\* delay = retry_after or min(backoff_max_seconds, backoff_base_seconds * 2**attempt)
BackoffDelay(pol, msg, att) ==
    IF parse_retry_after_seconds(msg) # 0
        THEN parse_retry_after_seconds(msg) * TicksPerSecond
        ELSE Min(pol.backoff_max_seconds, pol.backoff_base_seconds * Pow2(att))

\* random.uniform(0.0, jitter_seconds): the two ends of the range
Jitters(pol) == {0, pol.jitter_seconds}

\* mutant: the gap sleep is one tick short
GapDelay_Short(t, last, target_gap) ==
    IF t - last < target_gap THEN target_gap - (t - last) - 1 ELSE 0

\* asyncio.sleep(target_gap - elapsed) when elapsed < target_gap, else no sleep
GapDelay(t, last, target_gap) ==
    IF t - last < target_gap THEN target_gap - (t - last) ELSE 0

\* register_rate_limit: the new _consecutive_429 and _cooldown_until
RateLimitCount(n) == n + 1

\* mutant: the cooldown starts with the third rate limit in a row
RateLimitCooldown_AtThree(pol, n, t, until) ==
    IF RateLimitCount(n) >= 3 THEN t + pol.cooldown_seconds ELSE until

RateLimitCooldown(pol, n, t, until) ==
    IF RateLimitCount(n) >= 2 THEN t + pol.cooldown_seconds ELSE until

\* ---------------------------------------------------------------- state
VARIABLES
    policy,             \* FETCH_POLICY (server.py:37)
    pc,                 \* where each get_transcript call is
    key,                \* inflight_key of the call
    force_refresh,      \* argument of the call
    cache,              \* the transcripts table: key -> row
    cache_entry,        \* local cache_entry of the call
    INFLIGHT,           \* key -> the call that created the future, or NoCall
    INFLIGHT_LOCK,      \* holder of INFLIGHT_LOCK, or NoCall
    future,             \* local future of the call (named by its creator)
    created,            \* local created of the call
    future_result,      \* creator -> value of the future it created
    lock,               \* holder of THROTTLER._lock, or NoCall
    last_request_at,    \* THROTTLER._last_request_at
    cooldown_until,     \* THROTTLER._cooldown_until
    consecutive_429,    \* THROTTLER._consecutive_429
    attempt,            \* local attempt of _fetch_transcript_with_policy
    wake,               \* deadline of the asyncio.sleep the call is in
    outcome,            \* what the last _fetch_transcript_once thread got
    fetched,            \* the dict the last _fetch_transcript_once returned
    result,             \* value returned by the call
    \* history variables, read only by the properties
    fetches,            \* upstream fetch attempts made by the call
    all_rate_limited,   \* every upstream answer to the call was a rate limit
    slots,              \* wait_for_slot returns (grants) the call got
    granted,            \* some wait_for_slot has returned
    grant_last,         \* time of the latest grant
    started_empty,      \* the cache had no row for the key when the call began
    overlap,            \* calls in progress when the call began
    rl_since_success,   \* register_rate_limit calls since the last register_success
    last_reg,           \* <<kind, parity>> of the latest register_* call
    \* cache.py and utils.py taken alone (CacheSpec, UtilSpec)
    table,              \* the transcripts table with all its columns: key -> row
    last_set,           \* history: key -> arguments of the latest set_cache_entry
    got,                \* what the latest get_cache_entry returned
    url_or_id,          \* argument of extract_video_id
    video_id,           \* what extract_video_id returned
    \* what a run is given
    prefer_auto,        \* call -> the values its prefer_auto argument may have
    transcripts         \* key -> the transcript lists the video may have upstream

callArgs == <<key, force_refresh>>
throttle == <<lock, last_request_at, cooldown_until, consecutive_429>>
registry == <<INFLIGHT, INFLIGHT_LOCK>>
locals == <<cache_entry, future, created, attempt, wake, outcome, fetched>>
fetchHist == <<fetches, all_rate_limited>>
grantHist == <<slots, granted, grant_last>>
regHist == <<rl_since_success, last_reg>>
startHist == <<started_empty, overlap>>

cacheUnit == <<table, last_set, got>>
utilUnit == <<url_or_id, video_id>>
inputs == <<prefer_auto, transcripts>>

\* the state of server.py and throttle.py
server ==
    <<policy, pc, callArgs, cache, registry, locals, future_result,
      throttle, result, fetchHist, grantHist, regHist, startHist>>

vars == <<server, cacheUnit, utilUnit, inputs>>

\* the longest gap wait_for_slot can ask for
Horizon(pol) == pol.min_interval_seconds + pol.jitter_seconds

InProgress(c) == pc[c] \notin {"idle", "returned", "raised"}

ServerInit ==
    /\ policy \in {policy_for(m) : m \in Methods}
    /\ pc = [c \in Calls |-> "idle"]
    /\ key = [c \in Calls |-> "vidA:en:text"]
    /\ force_refresh = [c \in Calls |-> FALSE]
    /\ cache = [k \in Keys |-> NoEntry]
    /\ cache_entry = [c \in Calls |-> NoEntry]
    /\ INFLIGHT = [k \in Keys |-> NoCall]
    /\ INFLIGHT_LOCK = NoCall
    /\ future = [c \in Calls |-> NoCall]
    /\ created = [c \in Calls |-> FALSE]
    /\ future_result = [c \in Calls |-> Pending]
    /\ lock = NoCall
    /\ last_request_at \in {now, now - Horizon(policy)}
    /\ cooldown_until = now
    /\ consecutive_429 = 0
    /\ attempt = [c \in Calls |-> 0]
    /\ wake = [c \in Calls |-> 0]
    /\ outcome = [c \in Calls |-> "none"]
    /\ fetched = [c \in Calls |-> Pending]
    /\ result = [c \in Calls |-> Pending]
    /\ fetches = [c \in Calls |-> 0]
    /\ all_rate_limited = [c \in Calls |-> TRUE]
    /\ slots = [c \in Calls |-> 0]
    /\ granted = FALSE
    /\ grant_last = last_request_at
    /\ started_empty = [c \in Calls |-> FALSE]
    /\ overlap = [c \in Calls |-> {}]
    /\ rl_since_success = 0
    /\ last_reg = <<"none", 0>>

\* cache.py and utils.py at rest: an empty table, no call made
CacheUnitIdle ==
    /\ table = [k \in Keys |-> NoRow]
    /\ last_set = [k \in Keys |-> NeverSet]
    /\ got = [called |-> FALSE, key |-> "", entry |-> None]

UtilUnitIdle ==
    /\ url_or_id = <<>>
    /\ video_id = <<>>

\* nothing is fixed beforehand: every call may come with either prefer_auto
\* and the upstream may answer each fetch with any transcript list
InputsAny ==
    /\ prefer_auto = [c \in Calls |-> BOOLEAN]
    /\ transcripts = [k \in Keys |-> HasTranscript]

Init ==
    /\ ServerInit
    /\ CacheUnitIdle
    /\ UtilUnitIdle
    /\ InputsAny

\* ---------------------------------------------------------------- wait_for_slot
\* mutant: wait_for_slot returns with the lock still held
GrantSlot_KeepsLock(c) ==
    /\ last_request_at' = now
    /\ lock' = c
    /\ pc' = [pc EXCEPT ![c] = "fetching"]
    /\ slots' = [slots EXCEPT ![c] = @ + 1]
    /\ granted' = TRUE
    /\ grant_last' = now
    /\ UNCHANGED wake

\* throttle.py:31: self._last_request_at = time.monotonic(); the lock is
\* released and the caller hands _fetch_transcript_once to a worker thread
GrantSlot(c) ==
    /\ last_request_at' = now
    /\ lock' = NoCall
    /\ pc' = [pc EXCEPT ![c] = "fetching"]
    /\ slots' = [slots EXCEPT ![c] = @ + 1]
    /\ granted' = TRUE
    /\ grant_last' = now
    /\ UNCHANGED wake

\* throttle.py:24-31: the gap to the last request, slept or not
GapOrGrant(c) ==
    \E j \in Jitters(policy) :
        LET d == GapDelay(now, last_request_at, policy.min_interval_seconds + j)
        IN  IF d > 0
              THEN /\ wake' = [wake EXCEPT ![c] = now + d]
                   /\ pc' = [pc EXCEPT ![c] = "gap_sleep"]
                   /\ lock' = c
                   /\ UNCHANGED <<last_request_at, grantHist>>
              ELSE GrantSlot(c)

\* throttle.py:19-22: inside the lock, the cooldown is slept out
AfterAcquire(c) ==
    IF now < cooldown_until
      THEN /\ wake' = [wake EXCEPT ![c] = now + (cooldown_until - now)]
           /\ pc' = [pc EXCEPT ![c] = "cooldown_sleep"]
           /\ lock' = c
           /\ UNCHANGED <<last_request_at, grantHist>>
      ELSE GapOrGrant(c)

\* throttle.py:19 (async with self._lock): the call goes on when the lock is
\* free and waits for it when it is held
wait_for_slot(c) ==
    IF lock = NoCall
      THEN AfterAcquire(c)
      ELSE /\ pc' = [pc EXCEPT ![c] = "wait_lock"]
           /\ UNCHANGED <<lock, wake, last_request_at, grantHist>>

\* throttle.py:33-34
register_success ==
    /\ consecutive_429' = 0
    /\ UNCHANGED cooldown_until
    /\ rl_since_success' = 0
    /\ last_reg' = <<"success", 1 - last_reg[2]>>

\* throttle.py:36-39
register_rate_limit ==
    /\ consecutive_429' = RateLimitCount(consecutive_429)
    /\ cooldown_until' = RateLimitCooldown(policy, consecutive_429, now, cooldown_until)
    /\ rl_since_success' = rl_since_success + 1
    /\ last_reg' = <<"rate_limit", 1 - last_reg[2]>>

\* ---------------------------------------------------------------- get_transcript
\* mutant: the registry is not consulted, every call creates a future
IsOwner_Always(k) == TRUE

\* server.py:174-175: future = INFLIGHT.get(inflight_key); if not future
IsOwner(k) == INFLIGHT[k] = NoCall

\* server.py:170-198: under INFLIGHT_LOCK the call joins the future of its key
\* or creates it; a joiner awaits the future, the creator starts
\* _fetch_transcript_with_policy with attempt = 0 and asks for a slot
JoinOrCreate(c, k) ==
    /\ INFLIGHT_LOCK = NoCall
    /\ IF IsOwner(k)
         THEN /\ INFLIGHT' = [INFLIGHT EXCEPT ![k] = c]
              /\ future' = [future EXCEPT ![c] = c]
              /\ created' = [created EXCEPT ![c] = TRUE]
              /\ wait_for_slot(c)
         ELSE /\ future' = [future EXCEPT ![c] = INFLIGHT[k]]
              /\ pc' = [pc EXCEPT ![c] = "await_future"]
              /\ UNCHANGED <<INFLIGHT, created, lock, wake, last_request_at,
                             grantHist>>
    /\ UNCHANGED INFLIGHT_LOCK

\* The keys a call may be made with: the keys are interchangeable, so the
\* first call is made with the first one.
StartKeys(c) == IF c = 1 THEN {"vidA:en:text"} ELSE Keys

\* server.py:139-151, 168: the call begins; without force_refresh the cache read
\* is handed to a worker thread, with it the call goes on to the registry
Start(c) ==
    /\ pc[c] = "idle"
    /\ \A d \in Calls : d < c => pc[d] # "idle"
    /\ \E k \in StartKeys(c), fr \in BOOLEAN :
          /\ key' = [key EXCEPT ![c] = k]
          /\ force_refresh' = [force_refresh EXCEPT ![c] = fr]
          /\ started_empty' = [started_empty EXCEPT ![c] = ~cache[k].exists]
          /\ IF fr
               THEN JoinOrCreate(c, k)
               ELSE /\ pc' = [pc EXCEPT ![c] = "cache_read"]
                    /\ UNCHANGED <<registry, future, created, lock, wake,
                                   last_request_at, grantHist>>
    /\ overlap' = [overlap EXCEPT ![c] = {d \in Calls : InProgress(d)}]
    /\ UNCHANGED <<cacheUnit, utilUnit, inputs, policy, cache, cache_entry, attempt, outcome, fetched,
                   future_result, cooldown_until, consecutive_429, result, fetchHist,
                   regHist>>

\* the worker thread of asyncio.to_thread(get_cache_entry, ...)
CacheRead(c) ==
    /\ pc[c] = "cache_read"
    /\ cache_entry' = [cache_entry EXCEPT ![c] = get_cache_entry(cache, key[c])]
    /\ pc' = [pc EXCEPT ![c] = "cache_done"]
    /\ UNCHANGED <<cacheUnit, utilUnit, inputs, policy, callArgs, cache, registry, future, created, attempt,
                   wake, outcome, fetched, future_result, throttle, result, fetchHist,
                   grantHist, regHist, startHist>>

\* server.py:152-165: if cache_entry: return _format_cached_response(...)
CacheHit(c) ==
    /\ pc[c] = "cache_done"
    /\ cache_entry[c].exists
    /\ result' = [result EXCEPT ![c] = format_cached_response(key[c], cache_entry[c])]
    /\ pc' = [pc EXCEPT ![c] = "returned"]
    /\ cache_entry' = [cache_entry EXCEPT ![c] = NoEntry]
    /\ UNCHANGED <<cacheUnit, utilUnit, inputs, policy, callArgs, cache, registry, future, created, attempt,
                   wake, outcome, fetched, future_result, throttle, fetchHist,
                   grantHist, regHist, startHist>>

\* server.py:166-198: cache miss, on to the registry
CacheMiss(c) ==
    /\ pc[c] = "cache_done"
    /\ ~cache_entry[c].exists
    /\ JoinOrCreate(c, key[c])
    /\ cache_entry' = [cache_entry EXCEPT ![c] = NoEntry]
    /\ UNCHANGED <<cacheUnit, utilUnit, inputs, policy, callArgs, cache, attempt, outcome, fetched,
                   future_result, cooldown_until, consecutive_429, result, fetchHist,
                   regHist, startHist>>

\* server.py:181-182: return await future
AwaitFuture(c) ==
    /\ pc[c] = "await_future"
    /\ future_result[future[c]] # Pending
    /\ result' = [result EXCEPT ![c] = future_result[future[c]]]
    /\ pc' = [pc EXCEPT ![c] = "returned"]
    /\ UNCHANGED <<cacheUnit, utilUnit, inputs, policy, callArgs, cache, registry, locals, future_result,
                   throttle, fetchHist, grantHist, regHist, startHist>>

\* throttle.py:19: the lock the call waited for is free
LockAcquired(c) ==
    /\ pc[c] = "wait_lock"
    /\ lock = NoCall
    /\ AfterAcquire(c)
    /\ UNCHANGED <<cacheUnit, utilUnit, inputs, policy, callArgs, cache, registry, cache_entry, future,
                   created, attempt, outcome, fetched, future_result,
                   cooldown_until, consecutive_429, result, fetchHist, regHist,
                   startHist>>

\* throttle.py:22-24: the cooldown sleep ends
CooldownWake(c) ==
    /\ pc[c] = "cooldown_sleep"
    /\ now >= wake[c]
    /\ GapOrGrant(c)
    /\ UNCHANGED <<cacheUnit, utilUnit, inputs, policy, callArgs, cache, registry, cache_entry, future,
                   created, attempt, outcome, fetched, future_result,
                   cooldown_until, consecutive_429, result, fetchHist, regHist,
                   startHist>>

\* throttle.py:30-31: the gap sleep ends
GapWake(c) ==
    /\ pc[c] = "gap_sleep"
    /\ now >= wake[c]
    /\ GrantSlot(c)
    /\ UNCHANGED <<cacheUnit, utilUnit, inputs, policy, callArgs, cache, registry, cache_entry, future,
                   created, attempt, outcome, fetched, future_result,
                   cooldown_until, consecutive_429, result, fetchHist, regHist,
                   startHist>>

\* ---------------------------------------------------------------- the fetch
\* server.py:355-453, in the worker thread: the upstream answer; a transcript
\* is stored with set_cache_entry and the result dict is built.  The call's
\* prefer_auto argument is read nowhere else and matters only to the one fetch
\* of a call that finds a transcript, so it is drawn here, from the values the
\* run allows it; the upstream answers with a transcript list the run allows
\* for the video, or with an exception.
FetchOnce(c) ==
    /\ pc[c] = "fetching"
    /\ \E up \in UpstreamOf(transcripts[key[c]]), pa \in prefer_auto[c] :
          /\ IF up \in HasTranscript
               THEN LET auto == PickAuto(pa, up)
                        entry == CacheEntry(TextOf(key[c], auto), auto)
                    IN  /\ cache' = set_cache_entry(cache, key[c],
                                       entry.transcript_text, entry.is_auto_generated)
                        /\ fetched' = [fetched EXCEPT ![c] =
                                          format_fetched_response(key[c], entry)]
                        /\ outcome' = [outcome EXCEPT ![c] = "ok"]
               ELSE /\ outcome' = [outcome EXCEPT ![c] = up]
                    /\ UNCHANGED <<cache, fetched>>
          /\ all_rate_limited' =
                 [all_rate_limited EXCEPT ![c] = @ /\ is_rate_limit_error(up)]
    /\ fetches' = [fetches EXCEPT ![c] = @ + 1]
    /\ pc' = [pc EXCEPT ![c] = "fetched"]
    /\ UNCHANGED <<cacheUnit, utilUnit, inputs, policy, callArgs, registry, cache_entry, future, created,
                   attempt, wake, future_result, throttle, result, grantHist,
                   regHist, startHist>>

\* mutant: the waiters are handed an error envelope built anew, not the result
SetResult_Rebuilt(c, res) ==
    /\ future_result' = [future_result EXCEPT ![future[c]] =
                             format_error_response(key[c], "Internal error")]
    /\ result' = [result EXCEPT ![c] = res]

\* mutant: the future is resolved only when the fetch gave a transcript
SetResult_OnSuccessOnly(c, res) ==
    /\ future_result' = [future_result EXCEPT ![future[c]] =
                             IF res.error = NoError THEN res ELSE Pending]
    /\ result' = [result EXCEPT ![c] = res]

\* server.py:199-200: future.set_result(result); return result
SetResult(c, res) ==
    /\ future_result' = [future_result EXCEPT ![future[c]] = res]
    /\ result' = [result EXCEPT ![c] = res]

\* mutant: the key stays in the registry
PopInflight_Skipped(c) == UNCHANGED <<INFLIGHT, INFLIGHT_LOCK>>

\* server.py:210-212: finally: async with INFLIGHT_LOCK: INFLIGHT.pop(key, None)
PopInflight(c) ==
    /\ INFLIGHT_LOCK = NoCall
    /\ INFLIGHT' = [INFLIGHT EXCEPT ![key[c]] = NoCall]
    /\ UNCHANGED INFLIGHT_LOCK

\* server.py:199-212: _fetch_transcript_with_policy returned res to the owner
Finish(c, res) ==
    /\ SetResult(c, res)
    /\ PopInflight(c)
    /\ pc' = [pc EXCEPT ![c] = "returned"]
    /\ attempt' = [attempt EXCEPT ![c] = 0]
    /\ outcome' = [outcome EXCEPT ![c] = "none"]
    /\ fetched' = [fetched EXCEPT ![c] = Pending]
    /\ UNCHANGED <<cache_entry, future, created, wake>>

\* server.py:302-303: the fetch returned a result
FetchSucceeded(c) ==
    /\ pc[c] = "fetched"
    /\ outcome[c] = "ok"
    /\ register_success
    /\ Finish(c, fetched[c])
    /\ UNCHANGED <<cacheUnit, utilUnit, inputs, policy, callArgs, cache, lock, last_request_at, fetchHist,
                   grantHist, startHist>>

\* mutant: both handlers give the message of TranscriptsDisabled
NoTranscriptError_Disabled(exc) == "No transcript available (disabled)"

\* the error string of the two "no transcript" handlers
NoTranscriptError(exc) ==
    IF exc = "TranscriptsDisabled" THEN "No transcript available (disabled)"
    ELSE "No transcript available"

\* server.py:304-317: except TranscriptsDisabled / except NoTranscriptFound
FetchNoTranscript(c) ==
    /\ pc[c] = "fetched"
    /\ outcome[c] \in {"TranscriptsDisabled", "NoTranscriptFound"}
    /\ register_success
    /\ Finish(c, format_error_response(key[c], NoTranscriptError(outcome[c])))
    /\ UNCHANGED <<cacheUnit, utilUnit, inputs, policy, callArgs, cache, lock, last_request_at, fetchHist,
                   grantHist, startHist>>

\* server.py:330-334: the error of a request whose retries are used up
RateLimitedError == "Rate limited (429): cooldown in effect"

\* mutant: one attempt more than max_retries + 1
RetriesExhausted_Late(pol, att) == att > pol.max_retries

\* server.py:329: if attempt >= FETCH_POLICY.max_retries
RetriesExhausted(pol, att) == att >= pol.max_retries

\* server.py:319-334: a rate-limit error with the retries used up
FetchRateLimitedLast(c) ==
    /\ pc[c] = "fetched"
    /\ outcome[c] \notin {"ok", "TranscriptsDisabled", "NoTranscriptFound"}
    /\ is_rate_limit_error(outcome[c])
    /\ RetriesExhausted(policy, attempt[c])
    /\ register_rate_limit
    /\ Finish(c, format_error_response(key[c], RateLimitedError))
    /\ UNCHANGED <<cacheUnit, utilUnit, inputs, policy, callArgs, cache, lock, last_request_at, fetchHist,
                   grantHist, startHist>>

\* server.py:319-340: a rate-limit error with retries left: the backoff sleep
FetchRateLimitedRetry(c) ==
    /\ pc[c] = "fetched"
    /\ outcome[c] \notin {"ok", "TranscriptsDisabled", "NoTranscriptFound"}
    /\ is_rate_limit_error(outcome[c])
    /\ ~RetriesExhausted(policy, attempt[c])
    /\ register_rate_limit
    /\ wake' = [wake EXCEPT ![c] = now + BackoffDelay(policy, outcome[c], attempt[c])]
    /\ attempt' = [attempt EXCEPT ![c] = @ + 1]
    /\ pc' = [pc EXCEPT ![c] = "backoff_sleep"]
    /\ outcome' = [outcome EXCEPT ![c] = "none"]
    /\ UNCHANGED <<cacheUnit, utilUnit, inputs, policy, callArgs, cache, registry, cache_entry, future,
                   created, fetched, future_result, lock, last_request_at, result,
                   fetchHist, grantHist, startHist>>

\* server.py:342-352: any other exception: the raw message, no register_* call
FetchFailed(c) ==
    /\ pc[c] = "fetched"
    /\ outcome[c] \notin {"ok", "TranscriptsDisabled", "NoTranscriptFound"}
    /\ ~is_rate_limit_error(outcome[c])
    /\ Finish(c, format_error_response(key[c], outcome[c]))
    /\ UNCHANGED <<cacheUnit, utilUnit, inputs, policy, callArgs, cache, throttle, fetchHist, grantHist,
                   regHist, startHist>>

\* server.py:340-341, 284: the backoff sleep ends; continue: wait_for_slot again
BackoffWake(c) ==
    /\ pc[c] = "backoff_sleep"
    /\ now >= wake[c]
    /\ wait_for_slot(c)
    /\ UNCHANGED <<cacheUnit, utilUnit, inputs, policy, callArgs, cache, registry, cache_entry, future,
                   created, attempt, outcome, fetched, future_result,
                   cooldown_until, consecutive_429, result, fetchHist, regHist,
                   startHist>>

\* ---------------------------------------------------------------- the clock
Sleeping(c) == pc[c] \in {"cooldown_sleep", "gap_sleep", "backoff_sleep"}

\* The clock moves on by d: every stored instant moves back by d.  An instant
\* of a sleep or of the cooldown that is reached stays at now; the last request
\* stays within the longest gap wait_for_slot can ask for.
Elapse(d) ==
    /\ d > 0
    /\ wake' = [c \in Calls |-> Max(wake[c] - d, now)]
    /\ cooldown_until' = Max(cooldown_until - d, now)
    /\ last_request_at' = Max(last_request_at - d, now - Horizon(policy))
    /\ grant_last' = Max(grant_last - d, now - Horizon(policy))

\* the instants at which wait_for_slot's comparisons change their answer: the
\* end of the cooldown, and the last request plus the shortest and the longest gap
ThrottleInstants ==
    {cooldown_until, last_request_at + policy.min_interval_seconds,
     last_request_at + Horizon(policy)}

\* the clock moves on, no sleep ending, to the next such instant
TickIdle ==
    /\ \E t \in ThrottleInstants : Elapse(t - now)
    /\ UNCHANGED <<cacheUnit, utilUnit, inputs, policy, pc, callArgs, cache, registry, cache_entry, future,
                   created, attempt, outcome, fetched, future_result, lock,
                   consecutive_429, result, fetchHist, slots, granted, regHist,
                   startHist>>

\* the clock moves on to the deadline of a pending asyncio.sleep
TickToDeadline ==
    /\ \E c \in Calls :
          /\ Sleeping(c)
          /\ Elapse(wake[c] - now)
    /\ UNCHANGED <<cacheUnit, utilUnit, inputs, policy, pc, callArgs, cache, registry, cache_entry, future,
                   created, attempt, outcome, fetched, future_result, lock,
                   consecutive_429, result, fetchHist, slots, granted, regHist,
                   startHist>>

\* every step of a call that has begun
Step(c) ==
    \/ CacheRead(c)
    \/ CacheHit(c)
    \/ CacheMiss(c)
    \/ AwaitFuture(c)
    \/ LockAcquired(c)
    \/ CooldownWake(c)
    \/ GapWake(c)
    \/ FetchOnce(c)
    \/ FetchSucceeded(c)
    \/ FetchNoTranscript(c)
    \/ FetchRateLimitedLast(c)
    \/ FetchRateLimitedRetry(c)
    \/ FetchFailed(c)
    \/ BackoffWake(c)

Next ==
    \/ \E c \in Calls : Start(c)
    \/ \E c \in Calls : Step(c)
    \/ TickIdle
    \/ TickToDeadline

Spec == Init /\ [][Next]_vars

\* The event loop runs every ready coroutine, worker threads finish and the
\* clock reaches every deadline; a call that was never made need not begin.
FairSpec ==
    /\ Spec
    /\ \A c \in Calls : WF_vars(Step(c))
    /\ WF_vars(TickToDeadline)

\* ------------------------------------------------- the store fails
\* server.py:145-151: get_cache_entry raises in its worker thread (sqlite3
\* cannot open or read the file); the await is in no try block, so the
\* exception leaves get_transcript
CacheReadFails(c) ==
    /\ pc[c] = "cache_read"
    /\ pc' = [pc EXCEPT ![c] = "raised"]
    /\ UNCHANGED <<cacheUnit, utilUnit, inputs, policy, callArgs, cache, registry, locals,
                   future_result, throttle, result, fetchHist, grantHist, regHist,
                   startHist>>

\* server.py:420-430: set_cache_entry raises in the worker thread of
\* _fetch_transcript_once after the transcript was fetched; no row is written
FetchStoreFails(c) ==
    /\ pc[c] = "fetching"
    /\ outcome' = [outcome EXCEPT ![c] = "database is locked"]
    /\ all_rate_limited' = [all_rate_limited EXCEPT ![c] = FALSE]
    /\ fetches' = [fetches EXCEPT ![c] = @ + 1]
    /\ pc' = [pc EXCEPT ![c] = "fetched"]
    /\ UNCHANGED <<cacheUnit, utilUnit, inputs, policy, callArgs, cache, registry,
                   cache_entry, future, created, attempt, wake, fetched,
                   future_result, throttle, result, grantHist, regHist, startHist>>

FaultNext ==
    \/ Next
    \/ \E c \in Calls : CacheReadFails(c)
    \/ \E c \in Calls : FetchStoreFails(c)

\* the program with a persistent store that can fail
FaultSpec == Init /\ [][FaultNext]_vars

\* ------------------------------------------------- the owner is cancelled
\* The task of an owner is cancelled while it is suspended in a sleep or on the
\* throttler lock: CancelledError is no Exception, so server.py:201 does not
\* catch it and the future stays unresolved; "async with self._lock"
\* (throttle.py:19) releases the lock the task holds, the finally of
\* server.py:210-212 removes the key, and the exception leaves get_transcript.
OwnerCancelled(c) ==
    /\ created[c]
    /\ pc[c] \in {"wait_lock", "cooldown_sleep", "gap_sleep", "backoff_sleep"}
    /\ lock' = IF lock = c THEN NoCall ELSE lock
    /\ PopInflight(c)
    /\ pc' = [pc EXCEPT ![c] = "raised"]
    /\ attempt' = [attempt EXCEPT ![c] = 0]
    /\ UNCHANGED <<cacheUnit, utilUnit, inputs, policy, callArgs, cache, cache_entry,
                   future, created, wake, outcome, fetched, future_result,
                   last_request_at, cooldown_until, consecutive_429, result,
                   fetchHist, grantHist, regHist, startHist>>

CancelNext ==
    \/ Next
    \/ \E c \in Calls : OwnerCancelled(c)

\* the program with calls that can be cancelled
CancelSpec == Init /\ [][CancelNext]_vars

\* ------------------------------------------------- cache.py taken alone
\* cache.py:117-165: set_cache_entry(video_id, language, kind, ...)
SetCacheEntry ==
    /\ \E k \in Keys, text \in TranscriptTexts, segments \in SegmentsValues,
          metadata \in MetadataValues, auto \in AutoValues :
          /\ table' = InsertOrReplace(table, k,
                                      StoreRow(text, segments, metadata, auto))
          /\ last_set' = [last_set EXCEPT ![k] =
                             [present |-> TRUE, transcript_text |-> text,
                              segments |-> segments, metadata |-> metadata,
                              is_auto_generated |-> auto]]
    /\ UNCHANGED <<got, server, utilUnit, inputs>>

\* cache.py:71-114: get_cache_entry(video_id, language, kind)
GetCacheEntry ==
    /\ \E k \in Keys :
          got' = [called |-> TRUE, key |-> k, entry |-> LoadEntry(SelectRow(table, k))]
    /\ UNCHANGED <<table, last_set, server, utilUnit, inputs>>

\* the server at rest
ServerIdle ==
    /\ ServerInit
    /\ policy = policy_for("YT_TRANSCRIPT_API")
    /\ last_request_at = now

CacheInit ==
    /\ ServerIdle
    /\ CacheUnitIdle
    /\ UtilUnitIdle
    /\ InputsAny

CacheNext ==
    \/ SetCacheEntry
    \/ GetCacheEntry

CacheSpec == CacheInit /\ [][CacheNext]_vars

\* ------------------------------------------------- utils.py taken alone
\* The arguments extract_video_id is called with: an id, alone or in a URL of
\* one of the forms below, with or without a further query parameter, with or
\* without white space around it.
Forms ==
    {"bare", "watch", "watch_v_last", "watch_upper", "youtu_be",
     "shorts", "embed", "other_path", "other_watch"}

Prefix(form) ==
    CASE form = "bare" ->
            <<>>
      [] form = "watch" ->
            <<"h", "t", "t", "p", "s", ":", "/", "/", "w", "w", "w", ".",
              "y", "o", "u", "t", "u", "b", "e", ".", "c", "o", "m", "/",
              "w", "a", "t", "c", "h", "?", "v", "=">>
      [] form = "watch_v_last" ->
            <<"h", "t", "t", "p", "s", ":", "/", "/", "w", "w", "w", ".",
              "y", "o", "u", "t", "u", "b", "e", ".", "c", "o", "m", "/",
              "w", "a", "t", "c", "h", "?", "l", "i", "s", "t", "=", "P",
              "L", "1", "&", "v", "=">>
      [] form = "watch_upper" ->
            <<"H", "T", "T", "P", "S", ":", "/", "/", "W", "W", "W", ".",
              "Y", "O", "U", "T", "U", "B", "E", ".", "C", "O", "M", "/",
              "w", "a", "t", "c", "h", "?", "v", "=">>
      [] form = "youtu_be" ->
            <<"h", "t", "t", "p", "s", ":", "/", "/", "y", "o", "u", "t",
              "u", ".", "b", "e", "/">>
      [] form = "shorts" ->
            <<"h", "t", "t", "p", "s", ":", "/", "/", "w", "w", "w", ".",
              "y", "o", "u", "t", "u", "b", "e", ".", "c", "o", "m", "/",
              "s", "h", "o", "r", "t", "s", "/">>
      [] form = "embed" ->
            <<"h", "t", "t", "p", "s", ":", "/", "/", "w", "w", "w", ".",
              "y", "o", "u", "t", "u", "b", "e", ".", "c", "o", "m", "/",
              "e", "m", "b", "e", "d", "/">>
      [] form = "other_path" ->
            <<"h", "t", "t", "p", "s", ":", "/", "/", "e", "x", "a", "m",
              "p", "l", "e", ".", "c", "o", "m", "/", "v", "i", "d", "e",
              "o", "s", "/">>
      [] OTHER ->
            <<"h", "t", "t", "p", "s", ":", "/", "/", "e", "x", "a", "m",
              "p", "l", "e", ".", "c", "o", "m", "/", "w", "a", "t", "c",
              "h", "?", "v", "=">>

Id11 ==
    <<"d", "Q", "w", "4", "w", "9", "W", "g", "X", "c", "Q">>

Id5 ==
    <<"a", "b", "c", "d", "e">>

Id8 ==
    <<"a", "1", "b", "2", "c", "3", "d", "4">>

Ids == {Id11, Id5, Id8}

\* the further query parameter of the form
Extra(form) ==
    IF form \in {"watch", "watch_v_last", "watch_upper", "other_watch"}
      THEN
            <<"&", "t", "=", "1", "0">>
      ELSE
            <<"?", "t", "=", "1", "0">>

Tails(form) == {<<>>, Extra(form)}

Blanks == {<<>>, <<" ">>}

Build(lead, form, id, tail, trail) ==
    lead \o Prefix(form) \o id \o tail \o trail

\* utils.py:9-49: one call of extract_video_id
ExtractVideoId ==
    /\ \E lead \in Blanks, form \in Forms, id \in Ids, trail \in Blanks :
          \E tail \in Tails(form) :
              /\ url_or_id' = Build(lead, form, id, tail, trail)
              /\ video_id' = extract_video_id(url_or_id')
    /\ UNCHANGED <<server, cacheUnit, inputs>>

UtilInit ==
    /\ ServerIdle
    /\ CacheUnitIdle
    /\ UtilUnitIdle
    /\ InputsAny

UtilNext == ExtractVideoId

UtilSpec == UtilInit /\ [][UtilNext]_vars

\* ------------------------------------------------- prefer_auto and the key
\* Runs in which the arguments and the upstream are fixed beforehand: each call
\* has its one prefer_auto value and every video its one transcript list;
\* server.py:128-134 (the prefer_auto parameter), server.py:364 (the list).
\* The throttle profile has no part in the choice of a variant: one profile.
FixedInputs ==
    /\ prefer_auto \in [Calls -> {{TRUE}, {FALSE}}]
    /\ \E lst \in HasTranscript : transcripts = [k \in Keys |-> {lst}]

PreferInit ==
    /\ ServerInit
    /\ policy = policy_for("SCRAPE")
    /\ CacheUnitIdle
    /\ UtilUnitIdle
    /\ FixedInputs

PreferSpec == PreferInit /\ [][Next]_vars

\* ---------------------------------------------------------------- properties
Joined(c) == future[c] \notin {NoCall, c}

\* between creating the in-flight future and removing the key
OnOwnerPath(c) == created[c] /\ InProgress(c)

Overlapping(c, d) == c \in overlap[d] \/ d \in overlap[c]

\* C1: of two overlapping calls with the same key, both begun while the cache
\* had no row for the key and neither with force_refresh, at most one performs
\* upstream fetches: no second call becomes owner and fetches for that key.
C1_SingleFetch ==
    \A c, d \in Calls :
        ( /\ c # d
          /\ pc[c] # "idle" /\ pc[d] # "idle"
          /\ key[c] = key[d]
          /\ ~force_refresh[c] /\ ~force_refresh[d]
          /\ started_empty[c] /\ started_empty[d]
          /\ Overlapping(c, d) )
        => ~(fetches[c] > 0 /\ fetches[d] > 0)

\* C2: for each key at most one call is on the owner path, the registry names
\* it, and so at most one fetch (with its cache write) for the key is running,
\* whatever the calls' force_refresh.
C2_OneOwnerPerKey ==
    \A k \in Keys :
        /\ Cardinality({c \in Calls : OnOwnerPath(c) /\ key[c] = k}) <= 1
        /\ Cardinality({c \in Calls : pc[c] = "fetching" /\ key[c] = k}) <= 1
        /\ \A c \in Calls : (OnOwnerPath(c) /\ key[c] = k) => INFLIGHT[k] = c

\* a force_refresh call and a plain call for one key, one fetching as owner and
\* the other waiting on its future
C2_Witness ==
    \E c, d \in Calls :
        /\ key[c] = key[d]
        /\ force_refresh[c] # force_refresh[d]
        /\ pc[c] = "fetching"
        /\ pc[d] = "await_future"
        /\ future[d] = c

\* C3: a call that joined an in-flight future and has returned returned the
\* value its owner returned, error payload included, and fetched nothing itself.
C3_JoinerGetsOwnersValue ==
    \A c \in Calls :
        (pc[c] = "returned" /\ Joined(c))
        => /\ pc[future[c]] = "returned"
           /\ result[c] = result[future[c]]
           /\ result[c] # Pending
           /\ fetches[c] = 0
           /\ slots[c] = 0

\* a joiner has returned the error envelope of its owner's failed fetch
C3_Witness ==
    \E c \in Calls :
        /\ pc[c] = "returned"
        /\ Joined(c)
        /\ result[c].error = "boom"
        /\ result[future[c]].error = "boom"

\* C4: every call that was made returns in the end: an owner makes at most
\* max_retries + 1 attempts, and a call waiting on a future is resumed with a
\* result whatever became of the owner's fetch.
C4_EveryCallReturns ==
    /\ \A c \in Calls : (pc[c] # "idle") ~> (pc[c] = "returned")
    /\ [](\A c \in Calls : attempt[c] <= policy.max_retries)

\* a joiner has returned after its owner used up its retries on rate limits
C4_Witness ==
    \E c \in Calls :
        /\ pc[c] = "returned"
        /\ Joined(c)
        /\ result[c].error = RateLimitedError
        /\ fetches[future[c]] = policy.max_retries + 1

\* C5: every slot grant stamps last_request_at with the time of the grant and
\* comes at least min_interval_seconds after the grant before it, whichever
\* call and key the two grants were for.
C5_GrantsSpaced ==
    [][(slots' # slots)
       => /\ last_request_at' = now
          /\ granted => now - grant_last >= policy.min_interval_seconds]_vars

\* two calls with different keys have each been granted a slot
C5_Witness ==
    \E c, d \in Calls :
        /\ key[c] # key[d]
        /\ slots[c] >= 1
        /\ slots[d] >= 1

\* C6: no slot is granted at a time earlier than the current cooldown_until.
C6_NoGrantInCooldown ==
    [][(slots' # slots) => ~(now < cooldown_until')]_vars

\* C7: a register_rate_limit call sets cooldown_until to now + cooldown_seconds
\* exactly when it is the second or a later one since the last
\* register_success, else leaves it; register_success zeroes the count and
\* leaves cooldown_until.
C7_CooldownOnSecondRateLimit ==
    [][/\ (last_reg' # last_reg /\ last_reg'[1] = "rate_limit")
          => cooldown_until' = IF rl_since_success' >= 2
                                 THEN now + policy.cooldown_seconds
                                 ELSE cooldown_until
       /\ (last_reg' # last_reg /\ last_reg'[1] = "success")
          => /\ consecutive_429' = 0
             /\ cooldown_until' = cooldown_until]_vars

\* the last registration was a second or later rate limit and began a cooldown
C7_Witness ==
    /\ last_reg[1] = "rate_limit"
    /\ rl_since_success >= 2
    /\ cooldown_until = now + policy.cooldown_seconds

\* C8: an owner makes at most max_retries + 1 fetch attempts, one wait_for_slot
\* before each; when every attempt was rate limited it makes exactly that many
\* and returns the error envelope that tells of the rate limit.
C8_RateLimitedAttempts ==
    \A c \in Calls :
        /\ fetches[c] <= policy.max_retries + 1
        /\ slots[c] - fetches[c] \in {0, 1}
        /\ (pc[c] = "returned" /\ created[c] /\ all_rate_limited[c])
           => /\ fetches[c] = policy.max_retries + 1
              /\ slots[c] = fetches[c]
              /\ result[c].error = RateLimitedError
              /\ result[c].transcript_text = ""

\* an owner has returned after rate limits only
C8_Witness ==
    \E c \in Calls :
        /\ pc[c] = "returned"
        /\ created[c]
        /\ all_rate_limited[c]
        /\ fetches[c] = policy.max_retries + 1
        /\ result[c].error = RateLimitedError

\* C9: a call begun with no cache row for its key whose fetch ended in
\* NoTranscriptFound returns at once, with no further attempt, the envelope
\* with empty text, error "No transcript available" and is_auto_generated
\* null, and cooldown_until is what it was before the outcome was registered.
C9_NotFoundTerminal ==
    [][\A c \in Calls :
         ( /\ pc[c] = "fetched"
           /\ outcome[c] = "NoTranscriptFound"
           /\ started_empty[c]
           /\ pc'[c] # pc[c] )
         => /\ pc'[c] = "returned"
            /\ result'[c].transcript_text = ""
            /\ result'[c].error = "No transcript available"
            /\ result'[c].is_auto_generated = "null"
            /\ cooldown_until' = cooldown_until
            /\ fetches'[c] = fetches[c]]_vars

\* such a call has returned while a cooldown is in force
C9_Witness ==
    \E c \in Calls :
        /\ pc[c] = "returned"
        /\ created[c]
        /\ started_empty[c]
        /\ result[c].error = "No transcript available"
        /\ now < cooldown_until

\* C10: a call without force_refresh that read a row for its key returns the
\* envelope with source "cache" and the row's text, leaves the throttler and
\* the in-flight registry as they were, and has fetched nothing.
C10_CacheHitFrame ==
    [][\A c \in Calls :
         ( /\ pc[c] = "cache_done"
           /\ ~force_refresh[c]
           /\ cache_entry[c].exists
           /\ pc'[c] # pc[c] )
         => /\ pc'[c] = "returned"
            /\ result'[c].source = "cache"
            /\ result'[c].error = NoError
            /\ result'[c].transcript_text = cache_entry[c].transcript_text
            /\ UNCHANGED <<last_request_at, cooldown_until, consecutive_429,
                           INFLIGHT>>
            /\ fetches'[c] = 0
            /\ slots'[c] = 0]_vars

\* a call has returned a cached row while the owner for the same key is still
\* in the registry
C10_Witness ==
    \E c, d \in Calls :
        /\ c # d
        /\ pc[c] = "returned"
        /\ result[c].source = "cache"
        /\ result[c].transcript_text # ""
        /\ INFLIGHT[key[c]] = d

\* C11: a call with force_refresh never reads the cache and never returns a
\* source "cache" envelope, whatever row the key has: what it returns comes
\* from an upstream fetch, its own as owner or that of the owner it joined,
\* and its fetch that finds a transcript replaces the row of the key.
C11_ForceRefreshBypassesCache ==
    [][\A c \in Calls :
         /\ (force_refresh'[c] /\ pc'[c] # "idle")
            => /\ pc'[c] \notin {"cache_read", "cache_done"}
               /\ cache_entry'[c] = NoEntry
         /\ (force_refresh'[c] /\ pc'[c] = "returned")
            => /\ result'[c].source = "network"
               /\ \/ created'[c] /\ fetches'[c] >= 1
                  \/ Joined(c)' /\ fetches'[future'[c]] >= 1
                                /\ result'[c] = result'[future'[c]]
         /\ (force_refresh[c] /\ pc[c] = "fetching" /\ pc'[c] = "fetched"
               /\ outcome'[c] = "ok")
            => /\ cache'[key[c]].exists
               /\ cache'[key[c]].transcript_text = fetched'[c].transcript_text
               /\ cache'[key[c]].is_auto_generated = fetched'[c].is_auto_generated]_vars

\* a forced call begun with a row in the cache has returned what it fetched,
\* other than that row was at its start, and the row is now what it fetched
C11_Witness ==
    \E c \in Calls :
        /\ force_refresh[c]
        /\ ~started_empty[c]
        /\ pc[c] = "returned"
        /\ created[c]
        /\ result[c].transcript_text = "manual text"
        /\ cache[key[c]].transcript_text = "manual text"
        /\ \E d \in Calls : /\ d # c
                            /\ key[d] = key[c]
                            /\ result[d].transcript_text = "auto text"

\* C12: get_cache_entry for a key gives the text, segments, metadata and
\* is_auto_generated of the latest set_cache_entry for that very key, with
\* sha256 the hash of the text it gives, and None for a key never written.
C12_GetReturnsLastSet ==
    /\ [] \A k \in Keys :
          LET entry == LoadEntry(SelectRow(table, k))
          IN  IF ~last_set[k].present
                THEN entry = None
                ELSE /\ ~entry.is_none
                     /\ entry.transcript_text = last_set[k].transcript_text
                     /\ entry.segments = last_set[k].segments
                     /\ entry.metadata = last_set[k].metadata
                     /\ entry.is_auto_generated = last_set[k].is_auto_generated
                     /\ entry.sha256 = compute_sha256(entry.transcript_text)
    /\ [][got' # got
          => got'.entry = IF last_set[got'.key].present
                            THEN [is_none |-> FALSE,
                                  transcript_text |-> last_set[got'.key].transcript_text,
                                  segments |-> last_set[got'.key].segments,
                                  metadata |-> last_set[got'.key].metadata,
                                  is_auto_generated |->
                                      last_set[got'.key].is_auto_generated,
                                  sha256 |-> compute_sha256(
                                      last_set[got'.key].transcript_text)]
                            ELSE None]_vars

\* a key written with an empty list, an empty dict and False was read back
\* as such, after the other key was written with another text
C12_Witness ==
    /\ got.called
    /\ got.entry.segments = "[]"
    /\ got.entry.metadata = "{}"
    /\ got.entry.is_auto_generated = "False"
    /\ got.entry.transcript_text = "hello world"
    /\ \E k \in Keys : /\ k # got.key
                       /\ last_set[k].present
                       /\ last_set[k].transcript_text = ""

\* C13: no call ends as a raised exception, and every call that has ended
\* returned an envelope with transcript text or with an error string, also
\* when the store fails.
C13_AlwaysAnEnvelope ==
    \A c \in Calls :
        /\ pc[c] # "raised"
        /\ pc[c] = "returned"
           => /\ result[c] # Pending
              /\ result[c].error # NoError \/ result[c].transcript_text # ""

\* C14: policy_for gives each fetch method the profile of the table (times
\* in ticks, ttl in seconds), any method other than the two named ones the
\* SCRAPE profile, auth_required for the API method only, and FETCH_POLICY is
\* the profile of its method.
C14_PolicyProfiles ==
    LET Seconds(n) == n * TicksPerSecond
        Days(n) == n * 24 * 60 * 60
        Profile(p, ttl, interval, jitter, retries, base, max, cooldown, safe) ==
            /\ p.ttl_seconds = ttl
            /\ p.min_interval_seconds = interval
            /\ p.jitter_seconds = jitter
            /\ p.max_retries = retries
            /\ p.backoff_base_seconds = base
            /\ p.backoff_max_seconds = max
            /\ p.cooldown_seconds = cooldown
            /\ p.safe_max_per_hour = safe
        Holds(p, m) ==
            /\ p.fetch_method = m
            /\ p.auth_required = (m = "YT_DATA_API")
            /\ CASE m = "YT_DATA_API" ->
                      Profile(p, Days(14), Seconds(1), TicksPerSecond \div 2, 2,
                              Seconds(2), Seconds(30), Seconds(5 * 60), 50)
                 [] m = "YT_TRANSCRIPT_API" ->
                      Profile(p, Days(60), Seconds(8), Seconds(2), 3,
                              Seconds(2), Seconds(60), Seconds(15 * 60), 5)
                 [] OTHER ->
                      Profile(p, 1000000000, Seconds(12), Seconds(3), 1,
                              Seconds(2), Seconds(20), Seconds(30 * 60), 3)
    IN  /\ \A m \in Methods \cup {"UNKNOWN"} : Holds(policy_for(m), m)
        /\ Holds(policy, policy.fetch_method)

\* under the LIBRARY profile a call has used its 3 retries and the cooldown
\* of 15 minutes has just begun
C14_Witness ==
    /\ policy.fetch_method = "YT_TRANSCRIPT_API"
    /\ \E c \in Calls : fetches[c] = 4
    /\ cooldown_until = now + 15 * 60 * TicksPerSecond

C16_RegistryFollowsOwner ==
    /\ [](/\ \A k \in Keys :
               INFLIGHT[k] # NoCall
               => OnOwnerPath(INFLIGHT[k]) /\ key[INFLIGHT[k]] = k
          /\ \A c \in Calls : OnOwnerPath(c) => INFLIGHT[key[c]] = c
          /\ (\A c \in Calls : ~InProgress(c))
             => \A k \in Keys : INFLIGHT[k] = NoCall)
    /\ [][\A k \in Keys :
            (INFLIGHT[k] # NoCall /\ INFLIGHT'[k] # INFLIGHT[k])
            => /\ INFLIGHT'[k] = NoCall
               /\ pc'[INFLIGHT[k]] \in {"returned", "raised"}]_vars

\* an owner left by exception, its key was removed, and the next call for the
\* key has created a slot of its own
C16_Witness ==
    \E c, d \in Calls :
        /\ c # d
        /\ pc[c] = "raised"
        /\ created[c]
        /\ key[d] = key[c]
        /\ INFLIGHT[key[c]] = d

\* C17: when a fetch attempt fails with an error that is neither "no
\* transcript" nor a rate limit, the owner returns at once the error envelope
\* with the raw message, and the throttler has registered a success:
\* consecutive_429 is 0 afterwards and cooldown_until is as before.
C17_UnknownFailureRegistersSuccess ==
    [][\A c \in Calls :
         ( /\ pc[c] = "fetched"
           /\ outcome[c] \notin {"ok", "TranscriptsDisabled", "NoTranscriptFound"}
           /\ ~is_rate_limit_error(outcome[c])
           /\ pc'[c] # pc[c] )
         => /\ pc'[c] = "returned"
            /\ result'[c].error = outcome[c]
            /\ fetches'[c] = fetches[c]
            /\ consecutive_429' = 0
            /\ cooldown_until' = cooldown_until]_vars

\* C18: after a rate limit on attempt a < max_retries the owner sleeps, before
\* the next attempt, the retry-after hint of the error when the error carries
\* one, else min(backoff_max_seconds, backoff_base_seconds * 2^a), which is at
\* most backoff_max_seconds.
C18_RetryDelay ==
    [][\A c \in Calls :
         (pc[c] = "fetched" /\ pc'[c] = "backoff_sleep")
         => LET hint == IF outcome[c] = "429 Too Many Requests retry-after: 5"
                          THEN 5 * TicksPerSecond ELSE 0
                backoff == Min(policy.backoff_max_seconds,
                               policy.backoff_base_seconds * Pow2(attempt[c]))
            IN  /\ attempt[c] < policy.max_retries
                /\ attempt'[c] = attempt[c] + 1
                /\ backoff <= policy.backoff_max_seconds
                /\ wake'[c] - now = IF hint # 0 THEN hint ELSE backoff]_vars

\* C19: the cache changes only in a fetch that found a transcript, and then
\* only the row of that call's key; such a call returns the transcript; no
\* step in which a call returns changes the cache; and no step removes a row.
C19_CacheChangesOnlyOnSuccess ==
    [][/\ cache' # cache
          => \E c \in Calls :
                /\ pc[c] = "fetching"
                /\ pc'[c] = "fetched"
                /\ outcome'[c] = "ok"
                /\ \A k \in Keys : k # key[c] => cache'[k] = cache[k]
       /\ \A c \in Calls :
             (pc[c] = "fetched" /\ outcome[c] = "ok" /\ pc'[c] # pc[c])
             => pc'[c] = "returned" /\ result'[c].error = NoError
       /\ \A c \in Calls :
             (pc[c] # "returned" /\ pc'[c] = "returned") => cache' = cache
       /\ \A k \in Keys : cache[k].exists => cache'[k].exists]_vars

\* a forced call for a key with a row has returned an error envelope, and
\* the row is still there
C19_Witness ==
    \E c \in Calls :
        /\ force_refresh[c]
        /\ ~started_empty[c]
        /\ created[c]
        /\ pc[c] = "returned"
        /\ result[c].error = "No transcript available (disabled)"
        /\ cache[key[c]].exists
        /\ cache[key[c]].transcript_text # ""

\* C20: a call whose worker thread runs the upstream fetch (with its cache
\* write) or the cache read holds neither lock: the registry lock is held
\* across no suspension at all, and the throttler lock only by a call that
\* sleeps inside wait_for_slot.
C20_NoLockAcrossFetchOrStore ==
    /\ INFLIGHT_LOCK = NoCall
    /\ \A c \in Calls :
          /\ pc[c] \in {"cache_read", "fetching"}
             => lock # c /\ INFLIGHT_LOCK # c
          /\ lock = c => pc[c] \in {"cooldown_sleep", "gap_sleep"}

\* one call fetches while the other holds the throttler lock in its gap sleep
C20_Witness ==
    \E c, d \in Calls :
        /\ c # d
        /\ pc[c] = "fetching"
        /\ pc[d] = "gap_sleep"
        /\ lock = d

\* call c is at server.py:302, 305, 312 or 322: its step out of "fetched"
\* makes a register_success or register_rate_limit call
Registers(c) ==
    /\ pc[c] = "fetched"
    /\ pc'[c] # "fetched"
    /\ last_reg' # last_reg

\* C21: no register_success or register_rate_limit call changes the throttle
\* state (cooldown_until, the consecutive rate-limit count) while another call
\* is inside the critical section of wait_for_slot, as it would be were every
\* mutation of the throttle state made under the throttler's lock.
C21_RegisterOutsideCriticalSection ==
    [][\A c \in Calls :
          (/\ Registers(c)
           /\ \/ cooldown_until' # cooldown_until
              \/ consecutive_429' # consecutive_429)
          => \A d \in Calls \ {c} : lock # d]_vars

\* C22: whenever a call returns the terminal rate-limit envelope, the
\* throttler is cooling down at that moment: cooldown_until is later than the
\* current time, under every policy profile and every interleaving with the
\* register_success and register_rate_limit calls of other requests.
C22_TerminalRateLimitInCooldown ==
    [][\A c \in Calls :
          (/\ pc[c] = "fetched"
           /\ pc'[c] = "returned"
           /\ result'[c].error = RateLimitedError)
          => now < cooldown_until']_vars

\* C23: in every envelope a call has returned, hit is true exactly when the
\* source tag is "cache": an envelope with source "network", of a successful
\* fetch or of an error, has hit = false and age_seconds = null.
C23_HitOnlyFromCache ==
    \A c \in Calls :
        pc[c] = "returned"
        => /\ result[c].hit <=> result[c].source = "cache"
           /\ result[c].source = "network"
              => /\ ~result[c].hit
                 /\ result[c].age_seconds = "null"

\* the variant and the text the call's own prefer_auto picks from the
\* video's transcript list (server.py:369-382), as an owner's fetch would
OwnVariant(c) ==
    {PickAuto(pa, lst) : pa \in prefer_auto[c], lst \in transcripts[key[c]]}

\* C24: the transcript variant a call receives (is_auto_generated and text) is
\* the one its own prefer_auto value picks from the upstream state, whatever
\* the prefer_auto of an earlier or concurrent call for the same key, whether
\* the call is served from the cache, as a non-owner, or as owner.
C24_OwnPreferAutoDecides ==
    \A c \in Calls :
        (pc[c] = "returned" /\ result[c].error = NoError)
        => \A auto \in OwnVariant(c) :
              /\ result[c].is_auto_generated = auto
              /\ result[c].transcript_text = TextOf(key[c], auto)

====
